---- MODULE Spec2Model ----
(***************************************************************************)
(* Mixed-language utterance pipeline of the VictorAI tutor.                *)
(*                                                                         *)
(*   web client    : VoiceService in src/services/geminiService.ts, driven *)
(*                   by src/pages/Index.tsx                                *)
(*   mobile client : VoiceService in src/services/voiceService.ts, driven  *)
(*                   by app/(tabs)/index.tsx                               *)
(*                                                                         *)
(* Text is a sequence of Unicode code points.                              *)
(***************************************************************************)
EXTENDS Integers, Sequences, FiniteSets, TLC

\* ------------------------------------------------------------------------
\* Bounds of the model
\* ------------------------------------------------------------------------
MaxLen == 5
MaxJobs == 2

\* ------------------------------------------------------------------------
\* Characters
\* ------------------------------------------------------------------------
LParen == 40
RParen == 41
Space == 32

\* JavaScript \s (and String.prototype.trim): WhiteSpace + LineTerminator
IsWhitespace(c) ==
    \/ c \in {9, 10, 11, 12, 13, 32, 160, 5760, 8232, 8233, 8239, 8287, 12288, 65279}
    \/ c \in 8192..8202

\* the character class [а-яА-ЯёЁ]
IsRussianChar(c) ==
    \/ c \in 1072..1103
    \/ c \in 1040..1071
    \/ c = 1105
    \/ c = 1025

\* variant: the class is [а-яА-Я] only, ё and Ё lie outside those ranges
isRussianMainBlock(w) ==
    \E k \in 1..Len(w) : w[k] \in 1072..1103 \/ w[k] \in 1040..1071

\* (w) => /[а-яА-ЯёЁ]/.test(w)
isRussian(w) == \E k \in 1..Len(w) : IsRussianChar(w[k])

\* /^\s+$/.test(word)
IsWhitespaceToken(w) == Len(w) > 0 /\ \A k \in 1..Len(w) : IsWhitespace(w[k])

\* ------------------------------------------------------------------------
\* Cleaning: text.replace(/\([^)]*\)/g, '').replace(/\s+/g, ' ').trim()
\* ------------------------------------------------------------------------
\* index of the first ')' at or after position i, 0 when there is none
RECURSIVE FirstRParen(_, _)
FirstRParen(s, i) ==
    IF i > Len(s) THEN 0
    ELSE IF s[i] = RParen THEN i
    ELSE FirstRParen(s, i + 1)

\* .replace(/\([^)]*\)/g, ''): leftmost matches, each '(' up to the nearest ')'
RECURSIVE StripFrom(_, _)
StripFrom(s, i) ==
    IF i > Len(s) THEN << >>
    ELSE IF s[i] = LParen /\ FirstRParen(s, i + 1) # 0
         THEN StripFrom(s, FirstRParen(s, i + 1) + 1)
         ELSE << s[i] >> \o StripFrom(s, i + 1)

StripParens(s) == StripFrom(s, 1)

\* .replace(/\s+/g, ' '): every maximal whitespace run becomes one space
RECURSIVE CollapseFrom(_, _)
CollapseFrom(s, i) ==
    IF i > Len(s) THEN << >>
    ELSE IF IsWhitespace(s[i])
         THEN (IF i > 1 /\ IsWhitespace(s[i - 1]) THEN << >> ELSE << Space >>)
              \o CollapseFrom(s, i + 1)
         ELSE << s[i] >> \o CollapseFrom(s, i + 1)

CollapseWhitespace(s) == CollapseFrom(s, 1)

RECURSIVE TrimStart(_)
TrimStart(s) ==
    IF s # << >> /\ IsWhitespace(Head(s)) THEN TrimStart(Tail(s)) ELSE s

RECURSIVE TrimEnd(_)
TrimEnd(s) ==
    IF s # << >> /\ IsWhitespace(s[Len(s)])
    THEN TrimEnd(SubSeq(s, 1, Len(s) - 1))
    ELSE s

\* .trim()
Trim(s) == TrimEnd(TrimStart(s))

\* ------------------------------------------------------------------------
\* Tokenising: cleanedText.split(/(\s+)/)
\* ------------------------------------------------------------------------
\* length of the maximal prefix of s from position i whose characters are
\* whitespace (ws = TRUE) or non-whitespace (ws = FALSE)
RECURSIVE RunLen(_, _, _)
RunLen(s, i, ws) ==
    IF i > Len(s) \/ IsWhitespace(s[i]) # ws THEN 0
    ELSE 1 + RunLen(s, i + 1, ws)

\* split with a capturing separator: the pieces between separators (possibly
\* empty at either end) alternate with the separators themselves
RECURSIVE SplitFrom(_, _)
SplitFrom(s, i) ==
    LET n == RunLen(s, i, FALSE)
        m == RunLen(s, i + n, TRUE)
    IN  IF m = 0 THEN << SubSeq(s, i, i + n - 1) >>
        ELSE << SubSeq(s, i, i + n - 1), SubSeq(s, i + n, i + n + m - 1) >>
             \o SplitFrom(s, i + n + m)

SplitKeepSpaces(s) == SplitFrom(s, 1)

\* ------------------------------------------------------------------------
\* Web segmenter (geminiService.ts, VoiceService.speak)
\* ------------------------------------------------------------------------
NoLang == "null"

WebCleanedText(text) == Trim(CollapseWhitespace(StripParens(text)))

WebWords(text) == SplitKeepSpaces(WebCleanedText(text))

WebLoopInit == [groups |-> << >>, currentLang |-> NoLang, buffer |-> << >>]

\* variant: a whitespace token is skipped without being added to the buffer
WebLoopStepDropsSpace(st, word) ==
    IF IsWhitespaceToken(word)
    THEN st
    ELSE LET lang == IF isRussian(word) THEN "ru-RU" ELSE "en-US"
         IN  IF st.currentLang = NoLang
             THEN [st EXCEPT !.currentLang = lang, !.buffer = word]
             ELSE IF lang = st.currentLang
             THEN [st EXCEPT !.buffer = st.buffer \o word]
             ELSE [groups |-> Append(st.groups,
                                     [lang |-> st.currentLang, text |-> st.buffer]),
                   currentLang |-> lang,
                   buffer |-> word]

\* variant: at a change of language the whitespace that ends the buffer is
\* moved to the start of the new run
WebLoopStepSpaceLeads(st, word) ==
    IF IsWhitespaceToken(word)
    THEN [st EXCEPT !.buffer = st.buffer \o word]
    ELSE LET lang == IF isRussian(word) THEN "ru-RU" ELSE "en-US"
             kept == TrimEnd(st.buffer)
             moved == SubSeq(st.buffer, Len(kept) + 1, Len(st.buffer))
         IN  IF st.currentLang = NoLang
             THEN [st EXCEPT !.currentLang = lang, !.buffer = word]
             ELSE IF lang = st.currentLang
             THEN [st EXCEPT !.buffer = st.buffer \o word]
             ELSE [groups |-> Append(st.groups,
                                     [lang |-> st.currentLang, text |-> kept]),
                   currentLang |-> lang,
                   buffer |-> moved \o word]

\* variant: every token after the first closes the open run
WebLoopStepNeverMerges(st, word) ==
    IF IsWhitespaceToken(word)
    THEN [st EXCEPT !.buffer = st.buffer \o word]
    ELSE LET lang == IF isRussian(word) THEN "ru-RU" ELSE "en-US"
         IN  IF st.currentLang = NoLang
             THEN [st EXCEPT !.currentLang = lang, !.buffer = word]
             ELSE [groups |-> Append(st.groups,
                                     [lang |-> st.currentLang, text |-> st.buffer]),
                   currentLang |-> lang,
                   buffer |-> word]

\* one iteration of: for (const word of words) { ... }
WebLoopStep(st, word) ==
    IF IsWhitespaceToken(word)
    THEN [st EXCEPT !.buffer = st.buffer \o word]
    ELSE LET lang == IF isRussian(word) THEN "ru-RU" ELSE "en-US"
         IN  IF st.currentLang = NoLang
             THEN [st EXCEPT !.currentLang = lang, !.buffer = word]
             ELSE IF lang = st.currentLang
             THEN [st EXCEPT !.buffer = st.buffer \o word]
             ELSE [groups |-> Append(st.groups,
                                     [lang |-> st.currentLang, text |-> st.buffer]),
                   currentLang |-> lang,
                   buffer |-> word]

RECURSIVE WebLoop(_, _, _)
WebLoop(st, words, k) ==
    IF k > Len(words) THEN st
    ELSE WebLoop(WebLoopStep(st, words[k]), words, k + 1)

\* variant: the buffer left after the loop is never pushed
WebFlushForgotten(st) == st.groups

WebFlushUnconditional(st) ==
    Append(st.groups, [lang |-> st.currentLang, text |-> st.buffer])

\* if (buffer) groups.push({ lang: currentLang!, text: buffer })
WebFlush(st) ==
    IF st.buffer # << >>
    THEN Append(st.groups, [lang |-> st.currentLang, text |-> st.buffer])
    ELSE st.groups

WebGroups(text) == WebFlush(WebLoop(WebLoopInit, WebWords(text), 1))

\* ------------------------------------------------------------------------
\* Mobile segmenter (voiceService.ts, VoiceService.speak)
\* ------------------------------------------------------------------------
MobileCleanedText(text) == Trim(CollapseWhitespace(StripParens(text)))

MobileWords(text) == SplitKeepSpaces(MobileCleanedText(text))

MobileLoopInit == [groups |-> << >>, currentLang |-> NoLang, buffer |-> << >>]

\* variant: whitespace before a token of the other language goes to the
\* start of the new run
MobileLoopStepSpaceLeads(st, word) ==
    IF IsWhitespaceToken(word)
    THEN [st EXCEPT !.buffer = st.buffer \o word]
    ELSE LET lang == IF isRussian(word) THEN "ru" ELSE "en"
             kept == TrimEnd(st.buffer)
             moved == SubSeq(st.buffer, Len(kept) + 1, Len(st.buffer))
         IN  IF st.currentLang = NoLang
             THEN [st EXCEPT !.currentLang = lang, !.buffer = word]
             ELSE IF lang = st.currentLang
             THEN [st EXCEPT !.buffer = st.buffer \o word]
             ELSE [groups |-> Append(st.groups,
                                     [lang |-> st.currentLang, text |-> kept]),
                   currentLang |-> lang,
                   buffer |-> moved \o word]

\* variant: a whitespace token is not kept in the buffer
MobileLoopStepDropsSpace(st, word) ==
    IF IsWhitespaceToken(word)
    THEN st
    ELSE LET lang == IF isRussian(word) THEN "ru" ELSE "en"
         IN  IF st.currentLang = NoLang
             THEN [st EXCEPT !.currentLang = lang, !.buffer = word]
             ELSE IF lang = st.currentLang
             THEN [st EXCEPT !.buffer = st.buffer \o word]
             ELSE [groups |-> Append(st.groups,
                                     [lang |-> st.currentLang, text |-> st.buffer]),
                   currentLang |-> lang,
                   buffer |-> word]

MobileLoopStep(st, word) ==
    IF IsWhitespaceToken(word)
    THEN [st EXCEPT !.buffer = st.buffer \o word]
    ELSE LET lang == IF isRussian(word) THEN "ru" ELSE "en"
         IN  IF st.currentLang = NoLang
             THEN [st EXCEPT !.currentLang = lang, !.buffer = word]
             ELSE IF lang = st.currentLang
             THEN [st EXCEPT !.buffer = st.buffer \o word]
             ELSE [groups |-> Append(st.groups,
                                     [lang |-> st.currentLang, text |-> st.buffer]),
                   currentLang |-> lang,
                   buffer |-> word]

RECURSIVE MobileLoop(_, _, _)
MobileLoop(st, words, k) ==
    IF k > Len(words) THEN st
    ELSE MobileLoop(MobileLoopStep(st, words[k]), words, k + 1)

MobileFlush(st) ==
    IF st.buffer # << >>
    THEN Append(st.groups, [lang |-> st.currentLang, text |-> st.buffer])
    ELSE st.groups

MobileGroups(text) == MobileFlush(MobileLoop(MobileLoopInit, MobileWords(text), 1))

\* concatenation of the runs' text, in order
RECURSIVE ConcatText(_)
ConcatText(groups) ==
    IF groups = << >> THEN << >>
    ELSE Head(groups).text \o ConcatText(Tail(groups))

\* ------------------------------------------------------------------------
\* State
\* ------------------------------------------------------------------------
\* ========================================================================
\* Extraction of the structured reply (GeminiService of geminiService.ts)
\* ========================================================================
\* The completion text is a sequence of lexical tokens: JSON punctuation,
\* JSON strings and numbers, the literal null, brace-free prose, and the
\* markdown fences: three backquotes, with and without the label json.
Tok(k, v) == [k |-> k, v |-> v]

LBrace == Tok("{", "")
RBrace == Tok("}", "")
LBracket == Tok("[", "")
RBracket == Tok("]", "")
Colon == Tok(":", "")
Comma == Tok(",", "")
NullTok == Tok("null", "")
StrTok(s) == Tok("str", s)
NumTok(s) == Tok("num", s)
Prose == Tok("prose", "Sure, here it is")
FenceJson == Tok("fence", "json")
Fence == Tok("fence", "")

\* JavaScript values; the members of an object and the elements of an array
\* are in items, a member carries its key
Value(t, s, items) == [t |-> t, s |-> s, key |-> "", items |-> items]

Undefined == Value("undefined", "", << >>)
Null == Value("null", "", << >>)
Str(s) == Value("string", s, << >>)
Num(s) == Value("number", s, << >>)
Arr(items) == Value("array", "", items)
Obj(items) == Value("object", "", items)
Member(k, v) == [v EXCEPT !.key = k]

\* the result of a parsing step: the value read and the position after it
Parsed(v, p) == [ok |-> TRUE, val |-> v, next |-> p]
SyntaxError == [ok |-> FALSE, val |-> Undefined, next |-> 0]

RECURSIVE ParseValue(_, _), ParseElements(_, _, _), ParseMembers(_, _, _)

\* JSON value at position p of toks
ParseValue(toks, p) ==
    IF p > Len(toks) THEN SyntaxError
    ELSE CASE toks[p].k = "str" -> Parsed(Str(toks[p].v), p + 1)
           [] toks[p].k = "num" -> Parsed(Num(toks[p].v), p + 1)
           [] toks[p].k = "null" -> Parsed(Null, p + 1)
           [] toks[p].k = "[" ->
                  IF p < Len(toks) /\ toks[p + 1].k = "]"
                  THEN Parsed(Arr(<< >>), p + 2)
                  ELSE ParseElements(toks, p + 1, << >>)
           [] toks[p].k = "{" ->
                  IF p < Len(toks) /\ toks[p + 1].k = "}"
                  THEN Parsed(Obj(<< >>), p + 2)
                  ELSE ParseMembers(toks, p + 1, << >>)
           [] OTHER -> SyntaxError

\* value (',' value)* ']' at position p, after the elements acc
ParseElements(toks, p, acc) ==
    LET e == ParseValue(toks, p)
    IN  IF ~e.ok \/ e.next > Len(toks) THEN SyntaxError
        ELSE CASE toks[e.next].k = "]" ->
                      Parsed(Arr(Append(acc, e.val)), e.next + 1)
               [] toks[e.next].k = "," ->
                      ParseElements(toks, e.next + 1, Append(acc, e.val))
               [] OTHER -> SyntaxError

\* string ':' value (',' string ':' value)* '}' at position p, after the
\* members acc
ParseMembers(toks, p, acc) ==
    IF p + 1 > Len(toks) \/ toks[p].k # "str" \/ toks[p + 1].k # ":"
    THEN SyntaxError
    ELSE LET e == ParseValue(toks, p + 2)
         IN  IF ~e.ok \/ e.next > Len(toks) THEN SyntaxError
             ELSE LET members == Append(acc, Member(toks[p].v, e.val))
                  IN  CASE toks[e.next].k = "}" ->
                               Parsed(Obj(members), e.next + 1)
                        [] toks[e.next].k = "," ->
                               ParseMembers(toks, e.next + 1, members)
                        [] OTHER -> SyntaxError

\* JSON.parse(text): the whole text is one value, or a SyntaxError is thrown
JSONParse(toks) ==
    LET r == ParseValue(toks, 1)
    IN  IF r.ok /\ r.next = Len(toks) + 1 THEN r ELSE SyntaxError

\* obj.k: the last member with key k, undefined where there is none or obj
\* is not an object (a string's or an array's length is read by Length)
Get(obj, k) ==
    LET at == { n \in 1..Len(obj.items) : obj.items[n].key = k }
    IN  IF obj.t # "object" \/ at = { } THEN Undefined
        ELSE Member("", obj.items[CHOOSE n \in at : \A m \in at : m <= n])

\* ToBoolean(v)
Truthy(v) ==
    CASE v.t = "undefined" -> FALSE
      [] v.t = "null" -> FALSE
      [] v.t = "string" -> v.s # ""
      [] v.t = "number" -> v.s # "0"
      [] OTHER -> TRUE

\* a || b
OrElse(a, b) == IF Truthy(a) THEN a ELSE b

\* v.length > 0
LengthPositive(v) ==
    CASE v.t = "string" -> v.s # ""
      [] v.t = "array" -> v.items # << >>
      [] v.t = "object" ->
             Get(v, "length").t = "number" /\ Get(v, "length").s \notin {"0"}
      [] OTHER -> FALSE

\* the result of String.prototype.match: null, or the matched text
NoMatch == [found |-> FALSE, text |-> << >>]
Match(toks) == [found |-> TRUE, text |-> toks]

\* variant: the match is not greedy, it ends at the first '}'
BraceMatchShortest(toks) ==
    LET opens == { n \in 1..Len(toks) : toks[n] = LBrace }
        closes == { n \in 1..Len(toks) : toks[n] = RBrace }
        pairs == { pr \in opens \X closes : pr[1] < pr[2] }
    IN  IF pairs = { } THEN NoMatch
        ELSE LET a == CHOOSE n \in opens : \A m \in opens : n <= m
                 after == { n \in closes : n > a }
                 b == CHOOSE n \in after : \A m \in after : n <= m
             IN  Match(SubSeq(toks, a, b))

\* responseText.match(/\{[\s\S]*\}/): from the first '{' to the last '}'
BraceMatch(toks) ==
    LET opens == { n \in 1..Len(toks) : toks[n] = LBrace }
        closes == { n \in 1..Len(toks) : toks[n] = RBrace }
        pairs == { pr \in opens \X closes : pr[1] < pr[2] }
    IN  IF pairs = { } THEN NoMatch
        ELSE LET a == CHOOSE n \in opens : \A m \in opens : n <= m
                 b == CHOOSE n \in closes : \A m \in closes : m <= n
             IN  Match(SubSeq(toks, a, b))

\* the second responseText.match, of a fenced json block, followed by
\* jsonMatch[0] = jsonMatch[1]: the leftmost json fence that is followed by a
\* '{', up to the last '}' that is followed by three backquotes (which also
\* begin a json fence)
FenceMatch(toks) ==
    LET ends(i) == { j \in (i + 2)..(Len(toks) - 1) :
                       toks[j] = RBrace /\ toks[j + 1] \in {Fence, FenceJson} }
        starts == { i \in 1..(Len(toks) - 1) :
                      toks[i] = FenceJson /\ toks[i + 1] = LBrace /\ ends(i) # { } }
    IN  IF starts = { } THEN NoMatch
        ELSE LET i == CHOOSE n \in starts : \A m \in starts : n <= m
                 j == CHOOSE n \in ends(i) : \A m \in ends(i) : m <= n
             IN  Match(SubSeq(toks, i + 1, j))

\* let jsonMatch = ...; if (!jsonMatch) { jsonMatch = ... }
jsonMatch(responseText) ==
    IF BraceMatch(responseText).found
    THEN BraceMatch(responseText)
    ELSE FenceMatch(responseText)

\* the object returned by generateVictorAIResponse; a key the object literal
\* does not have reads as undefined
TutorRecord(r, c, v, p, f) ==
    [response |-> r, corrections |-> c, vocabularyTip |-> v,
     pronunciationTip |-> p, followUpQuestion |-> f]

\* the return statement of generateVictorAIResponse
TutorFields(parsedResponse) ==
    TutorRecord(
        OrElse(Get(parsedResponse, "response"),
               Str("I'm here to help you learn Russian!")),
        IF Truthy(Get(parsedResponse, "corrections"))
               /\ LengthPositive(Get(parsedResponse, "corrections"))
        THEN Get(parsedResponse, "corrections") ELSE Undefined,
        OrElse(Get(parsedResponse, "vocabularyTip"), Undefined),
        OrElse(Get(parsedResponse, "pronunciationTip"), Undefined),
        OrElse(Get(parsedResponse, "followUpQuestion"),
               Str("What Russian phrase would you like to learn?")))

\* variant: a parsing failure is answered with the generic field defaults
TutorCatchFieldDefaults == TutorFields(Obj(<< >>))

\* the catch block of generateVictorAIResponse
TutorCatch ==
    TutorRecord(
        Str("I'm sorry, I had trouble processing that. Could you try again? I'm here to help you learn Russian!"),
        Undefined, Undefined, Undefined,
        Str("What Russian words or phrases would you like to practice today?"))

\* the try block of generateVictorAIResponse: a failing generateContent, a
\* text without a match and a SyntaxError of JSON.parse all go to the catch
generateVictorAIResponse(c) ==
    IF ~c.ok THEN TutorCatch
    ELSE LET m == jsonMatch(c.text)
         IN  IF ~m.found THEN TutorCatch
             ELSE IF ~JSONParse(m.text).ok THEN TutorCatch
                  ELSE TutorFields(JSONParse(m.text).val)

WordRecord(p, e, t) == [phonetic |-> p, examples |-> e, translation |-> t]

\* the return statement of fetchWordData
WordFields(parsed) ==
    WordRecord(OrElse(Get(parsed, "phonetic"), Str("")),
               OrElse(Get(parsed, "examples"), Arr(<< >>)),
               OrElse(Get(parsed, "translation"), Str("")))

\* the catch block of fetchWordData
WordCatch == WordRecord(Str(""), Arr(<< >>), Str(""))

\* the try block of fetchWordData
fetchWordData(c) ==
    IF ~c.ok THEN WordCatch
    ELSE LET m == jsonMatch(c.text)
         IN  IF ~m.found THEN WordCatch
             ELSE IF ~JSONParse(m.text).ok THEN WordCatch
                  ELSE WordFields(JSONParse(m.text).val)

\* ------------------------------------------------------------------------
\* Completions
\* ------------------------------------------------------------------------
RECURSIVE Render(_), RenderElements(_), RenderMembers(_)

\* the JSON text of a value
Render(v) ==
    CASE v.t = "string" -> << StrTok(v.s) >>
      [] v.t = "number" -> << NumTok(v.s) >>
      [] v.t = "array" -> << LBracket >> \o RenderElements(v.items) \o << RBracket >>
      [] v.t = "object" -> << LBrace >> \o RenderMembers(v.items) \o << RBrace >>
      [] OTHER -> << NullTok >>

RenderElements(items) ==
    IF items = << >> THEN << >>
    ELSE Render(Head(items))
             \o (IF Len(items) > 1 THEN << Comma >> ELSE << >>)
             \o RenderElements(Tail(items))

RenderMembers(items) ==
    IF items = << >> THEN << >>
    ELSE << StrTok(Head(items).key), Colon >> \o Render(Head(items))
             \o (IF Len(items) > 1 THEN << Comma >> ELSE << >>)
             \o RenderMembers(Tail(items))

\* the members that are there: a payload leaves out what it has no value for
Present(members) == SelectSeq(members, LAMBDA m : m.t # "undefined")

\* what a completion may hold for each field the tutor prompt asks for
ResponseValues == { Undefined, Str(""), Str("Privet!"), Num("7") }

CorrectionsValues ==
    { Undefined, Null, Str("abc"), Num("7"), Obj(<< >>), Arr(<< >>),
      Arr(<< Obj(<< Member("original", Str("privet")) >>) >>) }

VocabularyTipValues == { Undefined, Str("dom"), Obj(<< Member("word", Str("dom")) >>) }

PronunciationTipValues == { Undefined, Obj(<< Member("word", Str("dom")) >>) }

FollowUpQuestionValues == { Undefined, Str(""), Str("Kak dela?") }

TutorPayloads ==
    { Obj(Present(<< Member("response", r), Member("corrections", c),
                     Member("vocabularyTip", v), Member("pronunciationTip", p),
                     Member("followUpQuestion", f) >>)) :
        r \in ResponseValues, c \in CorrectionsValues, v \in VocabularyTipValues,
        p \in PronunciationTipValues, f \in FollowUpQuestionValues }

\* what a completion may hold for each field the word prompt asks for
WordPayloads ==
    { Obj(Present(<< Member("phonetic", p), Member("examples", e),
                     Member("translation", t) >>)) :
        p \in { Undefined, Str("dom") },
        e \in { Undefined, Str("Eto dom"), Arr(<< >>), Arr(<< Str("Eto dom") >>) },
        t \in { Undefined, Str("house") } }

\* texts that are no JSON: nothing, prose, an object cut short, an object
\* with a trailing comma, a member without its braces, a lone '}'
BrokenBodies ==
    { << >>,
      << Prose >>,
      << LBrace, StrTok("response"), Colon, StrTok("Privet!") >>,
      << LBrace, StrTok("response"), Colon, StrTok("Privet!"), Comma, RBrace >>,
      << StrTok("response"), Colon, StrTok("Privet!"), RBrace >>,
      << RBrace, Prose, LBrace >> }

Bodies == { Render(v) : v \in TutorPayloads \cup WordPayloads } \cup BrokenBodies

\* what the model writes before and after the body: nothing, prose, a
\* remark in braces, a markdown fence
Preambles ==
    { << >>,
      << Prose >>,
      << FenceJson >>,
      << Prose, FenceJson >>,
      << LBrace, Prose, RBrace, FenceJson >> }

Postambles ==
    { << >>,
      << Prose >>,
      << Fence >>,
      << Fence, Prose >>,
      << Fence, LBrace, Prose, RBrace >> }

RawTexts == { a \o b \o z : a \in Preambles, b \in Bodies, z \in Postambles }

\* await this.model.generateContent(prompt) and result.response.text(): the
\* call fails, or it yields a text
Completions ==
    { [ok |-> TRUE, text |-> t] : t \in RawTexts } \cup { [ok |-> FALSE, text |-> << >>] }

\* the message of the error thrown where this.model is not set
NotInitialized == "Gemini AI not initialized. Please provide an API key."

\* a promise: not yet made, resolved with a value, or rejected; service is
\* this.model at the time of the call, asked tells whether the call reached
\* generateContent, error is the message of the rejection
Pending(v) ==
    [state |-> "none", value |-> v, service |-> "null", asked |-> FALSE,
     error |-> ""]
Resolved(v, m) ==
    [state |-> "resolved", value |-> v, service |-> m, asked |-> TRUE,
     error |-> ""]
Rejected(v, m) ==
    [state |-> "rejected", value |-> v, service |-> m, asked |-> FALSE,
     error |-> NotInitialized]

NoTutorRecord == TutorRecord(Undefined, Undefined, Undefined, Undefined, Undefined)
NoWordRecord == WordRecord(Undefined, Undefined, Undefined)

VARIABLES
    client,      \* "web" or "mobile": which VoiceService / screen is running
    synthesis,   \* what the constructor found: "speechSynthesis" or "undefined"
    jobs,        \* the speak calls made so far: [groups, onEnd]
    queue,       \* the backend's utterance queue, head is being spoken
    events,      \* backend events queued for delivery to the JS handlers
    isSpeaking,  \* the screen's isSpeaking state
    pc,          \* position of the mobile async speak (suspended at an await)
    log,         \* history: calls, backend requests, signals and callbacks
    input,       \* segmenter under test: the input text
    out,         \* segmenter under test: the result of each client
    model,       \* GeminiService.model: "null" until initialize
    completion,  \* what generateContent gives: a failure or a raw text
    tutorReply,  \* the promise of generateVictorAIResponse
    wordData,    \* the promise of fetchWordData
    voices,      \* what speechSynthesis.getVoices() returns
    spoken,      \* the utterances built by speakGroup: [lang, voice]
    chats,       \* Index.tsx: the chat list, a sequence of chat ids
    activeChatId, \* Index.tsx: the id of the active chat
    now,         \* the value of Date.now()
    lastOp,      \* history: the last chat handler that ran
    isListening, \* VoiceService.isListening
    recognition, \* the recognition backend: its phase and session number
    handlers,    \* the startListening call whose callbacks are installed
    heard        \* history: startListening calls and dispatched events

vars == << client, synthesis, jobs, queue, events, isSpeaking, pc, log, input, out,
          model, completion, tutorReply, wordData, voices, spoken,
          chats, activeChatId, now, lastOp,
          isListening, recognition, handlers, heard >>

orchVars == << client, synthesis, jobs, queue, events, isSpeaking, pc, log >>
segVars == << input, out >>
extVars == << model, completion, tutorReply, wordData >>
voiceVars == << voices, spoken >>
chatVars == << chats, activeChatId, now, lastOp >>
recVars == << isListening, recognition, handlers, heard >>

\* no voice was asked for yet
VoiceIdle ==
    /\ voices = << >>
    /\ spoken = << >>

\* the chat list before the page is mounted
ChatIdle ==
    /\ chats = << >>
    /\ activeChatId = 0
    /\ now = 0
    /\ lastOp = [op |-> "none", id |-> 0, only |-> FALSE]

\* private isListening = false, no recognition session
ListenIdle ==
    /\ isListening = FALSE
    /\ recognition = [phase |-> "idle", session |-> 0, late |-> 0]
    /\ handlers = 0
    /\ heard = << >>

\* texts handed to speak: "(a)", "д" and "д a д" (zero, one and three runs)
SpokenTexts ==
    { << 40, 97, 41 >>,
      << 1076 >>,
      << 1076, 32, 97, 32, 1076 >> }

Idle == [at |-> "idle", job |-> 0, i |-> 0, caller |-> "none"]

NoOut == [webDone |-> FALSE, web |-> << >>, mobileDone |-> FALSE, mobile |-> << >>]

Entry(op, j, i) == [op |-> op, job |-> j, i |-> i]

\* new SpeechSynthesisUtterance(text) with lang / Speech.speak(text, {language})
Utterance(j, i, g) == [job |-> j, i |-> i, lang |-> g.lang, text |-> g.text]

\* what the browser does to the utterance being spoken when cancel() is
\* called: it either fires 'end' or fires 'error' on it (engines differ)
CancelOutcomes == {"end", "error"}

\* speechSynthesis.cancel(): the queue is emptied; the utterance that was
\* being spoken gets the event o, utterances not yet started are dropped
CancelledEvents(q, ev, o) ==
    IF q = << >> THEN ev
    ELSE Append(ev, [type |-> o, job |-> Head(q).job, i |-> Head(q).i])

\* this.synthesis = window.speechSynthesis: undefined in a browser without
\* the Web Speech API; the expo-speech module of the mobile client is always
\* there
Capabilities(c) ==
    IF c = "web" THEN {"speechSynthesis", "undefined"} ELSE {"speechSynthesis"}

Init ==
    /\ client \in {"web", "mobile"}
    /\ synthesis \in Capabilities(client)
    /\ jobs = << >>
    /\ queue = << >>
    /\ events = << >>
    /\ isSpeaking = FALSE
    /\ pc = Idle
    /\ log = << >>
    /\ input = << >>
    /\ out = NoOut
    /\ model = "null"
    /\ completion = [ok |-> FALSE, text |-> << >>]
    /\ tutorReply = Pending(NoTutorRecord)
    /\ wordData = Pending(NoWordRecord)
    /\ VoiceIdle
    /\ ChatIdle
    /\ ListenIdle

\* ------------------------------------------------------------------------
\* Web client
\* ------------------------------------------------------------------------
\* variant: the branch for zero groups is missing, onEnd is not called
WebSpeakSilentOnEmpty(text, o) ==
    LET j == Len(jobs) + 1
        groups == WebGroups(text)
        called == log \o << Entry("call", j, 0), Entry("cancel", j, 0) >>
    IN  IF synthesis = "undefined"
        THEN /\ jobs' = Append(jobs, [groups |-> << >>, onEnd |-> TRUE, caller |-> "screen"])
             /\ log' = log \o << Entry("call", j, 0), Entry("reject", j, 0) >>
             /\ isSpeaking' = TRUE
             /\ UNCHANGED << client, queue, events, pc >>
        ELSE /\ jobs' = Append(jobs, [groups |-> groups, onEnd |-> TRUE, caller |-> "screen"])
             /\ events' = CancelledEvents(queue, events, o)
             /\ IF Len(groups) > 0
                THEN /\ queue' = << Utterance(j, 1, groups[1]) >>
                     /\ log' = Append(called, Entry("speak", j, 1))
                ELSE /\ queue' = << >>
                     /\ log' = called
             /\ isSpeaking' = TRUE
             /\ UNCHANGED << client, pc >>

\* VoiceService.speak(text, onEnd) of geminiService.ts, called with the
\* screen's isSpeaking already set to TRUE by the caller.  Group k of the
\* model is groups[k - 1] of the code.  Where this.synthesis is undefined,
\* this.synthesis.cancel() raises a TypeError in the first statement: the
\* promise of the async function is rejected, nothing else of speak runs,
\* and the callers neither await nor catch it.
WebSpeak(text, o) ==
    LET j == Len(jobs) + 1
        groups == WebGroups(text)
        called == log \o << Entry("call", j, 0), Entry("cancel", j, 0) >>
    IN  IF synthesis = "undefined"
        THEN /\ jobs' = Append(jobs, [groups |-> << >>, onEnd |-> TRUE, caller |-> "screen"])
             /\ log' = log \o << Entry("call", j, 0), Entry("reject", j, 0) >>
             /\ isSpeaking' = TRUE
             /\ UNCHANGED << client, queue, events, pc >>
        ELSE /\ jobs' = Append(jobs, [groups |-> groups, onEnd |-> TRUE, caller |-> "screen"])
             /\ events' = CancelledEvents(queue, events, o)
             /\ IF Len(groups) > 0
                THEN /\ queue' = << Utterance(j, 1, groups[1]) >>
                     /\ log' = Append(called, Entry("speak", j, 1))
                     /\ isSpeaking' = TRUE
                ELSE /\ queue' = << >>
                     /\ log' = Append(called, Entry("done", j, 0))
                     /\ isSpeaking' = FALSE
             /\ UNCHANGED << client, pc >>

\* VoiceService.stopSpeaking() of geminiService.ts; where this.synthesis is
\* undefined the call raises a TypeError out of stopSpeaking
WebStopSpeaking(o) ==
    IF synthesis = "undefined"
    THEN /\ log' = Append(log, Entry("throw", 0, 0))
         /\ UNCHANGED << queue, events >>
    ELSE /\ queue' = << >>
         /\ events' = CancelledEvents(queue, events, o)
         /\ log' = Append(log, Entry("stop", 0, 0))

\* handleTextToSpeech of pages/Index.tsx; a TypeError out of stopSpeaking
\* leaves the handler before setIsSpeaking(false)
WebHandleTextToSpeech ==
    /\ client = "web"
    /\ IF isSpeaking
       THEN /\ synthesis = "undefined" =>
                   Cardinality({ p \in 1..Len(log) : log[p].op = "throw" }) < MaxJobs
            /\ \E o \in CancelOutcomes : WebStopSpeaking(o)
            /\ isSpeaking' = (synthesis = "undefined")
            /\ UNCHANGED << client, jobs, pc >>
       ELSE /\ Len(jobs) < MaxJobs
            /\ \E text \in SpokenTexts, o \in CancelOutcomes : WebSpeak(text, o)
    /\ UNCHANGED << synthesis, segVars, extVars, voiceVars, chatVars, recVars >>

\* the auto-speak branch of processMessageWithAI of pages/Index.tsx
WebAutoSpeak ==
    /\ client = "web"
    /\ Len(jobs) < MaxJobs
    /\ \E text \in SpokenTexts, o \in CancelOutcomes : WebSpeak(text, o)
    /\ UNCHANGED << synthesis, segVars, extVars, voiceVars, chatVars, recVars >>

\* variant: the end test is off by one, onEnd is called in place of the
\* last run
WebSpeakGroupEndsEarly(j, k) ==
    LET groups == jobs[j].groups
        signalled == Append(log, Entry("end", j, k - 1))
    IN  IF k >= Len(groups)
        THEN /\ log' = IF jobs[j].onEnd THEN Append(signalled, Entry("done", j, 0))
                       ELSE signalled
             /\ isSpeaking' = IF jobs[j].onEnd THEN FALSE ELSE isSpeaking
             /\ UNCHANGED queue
        ELSE /\ queue' = Append(queue, Utterance(j, k, groups[k]))
             /\ log' = Append(signalled, Entry("speak", j, k))
             /\ UNCHANGED isSpeaking

\* speakGroup(i) of geminiService.ts, entered from utterance.onend of run
\* i - 1 of job j (model index k = i + 1)
WebSpeakGroup(j, k) ==
    LET groups == jobs[j].groups
        signalled == Append(log, Entry("end", j, k - 1))
    IN  IF k > Len(groups)
        THEN /\ log' = IF jobs[j].onEnd THEN Append(signalled, Entry("done", j, 0))
                       ELSE signalled
             /\ isSpeaking' = IF jobs[j].onEnd THEN FALSE ELSE isSpeaking
             /\ UNCHANGED queue
        ELSE /\ queue' = Append(queue, Utterance(j, k, groups[k]))
             /\ log' = Append(signalled, Entry("speak", j, k))
             /\ UNCHANGED isSpeaking

\* the browser delivers the next queued event to the utterance's handlers;
\* the code sets utterance.onend only, an 'error' event finds no handler
WebDeliver ==
    /\ client = "web"
    /\ events # << >>
    /\ LET e == Head(events)
       IN  /\ events' = Tail(events)
           /\ IF e.type = "end"
              THEN WebSpeakGroup(e.job, e.i + 1)
              ELSE /\ log' = Append(log, Entry("error", e.job, e.i))
                   /\ UNCHANGED << queue, isSpeaking >>
    /\ UNCHANGED << client, jobs, pc >>
    /\ UNCHANGED << synthesis, segVars, extVars, voiceVars, chatVars, recVars >>

\* ------------------------------------------------------------------------
\* Speech backend (speechSynthesis / expo-speech)
\* ------------------------------------------------------------------------
\* the utterance at the head of the queue finishes; the web code has an
\* onend handler on it, the mobile code passes no onDone callback, there the
\* history alone records that the run is over
BackendFinish ==
    /\ queue # << >>
    /\ queue' = Tail(queue)
    /\ IF client = "web"
       THEN /\ events' = Append(events, [type |-> "end", job |-> Head(queue).job,
                                         i |-> Head(queue).i])
            /\ UNCHANGED log
       ELSE /\ log' = Append(log, Entry("over", Head(queue).job, Head(queue).i))
            /\ UNCHANGED events
    /\ UNCHANGED << client, jobs, isSpeaking, pc >>
    /\ UNCHANGED << synthesis, segVars, extVars, voiceVars, chatVars, recVars >>

\* the utterance at the head of the queue fails at run time; the mobile code
\* passes no onError callback, there the history records that the run is over
BackendError ==
    /\ queue # << >>
    /\ queue' = Tail(queue)
    /\ IF client = "web"
       THEN /\ events' = Append(events, [type |-> "error", job |-> Head(queue).job,
                                         i |-> Head(queue).i])
            /\ UNCHANGED log
       ELSE /\ log' = Append(log, Entry("over", Head(queue).job, Head(queue).i))
            /\ UNCHANGED events
    /\ UNCHANGED << client, jobs, isSpeaking, pc >>
    /\ UNCHANGED << synthesis, segVars, extVars, voiceVars, chatVars, recVars >>

\* ------------------------------------------------------------------------
\* Mobile client
\* ------------------------------------------------------------------------
\* VoiceService.speak(text) of voiceService.ts up to its first await:
\* Speech.stop(), segmentation, Speech.speak of the first group.
\* Speech.speak returns no promise, so every await resumes on the next
\* microtask, before any other handler runs.
MobileSpeak(text, caller) ==
    LET j == Len(jobs) + 1
        groups == MobileGroups(text)
        called == log \o << Entry("call", j, 0), Entry("cancel", j, 0) >>
    IN  /\ jobs' = Append(jobs, [groups |-> groups, onEnd |-> FALSE, caller |-> caller])
        /\ IF Len(groups) > 0
           THEN /\ queue' = << Utterance(j, 1, groups[1]) >>
                /\ log' = Append(called, Entry("speak", j, 1))
           ELSE /\ queue' = << >>
                /\ log' = called
        /\ pc' = [at |-> "loop", job |-> j, i |-> 2, caller |-> caller]
        /\ UNCHANGED << client, events >>

\* VoiceService.stopSpeaking() of voiceService.ts
MobileStopSpeaking ==
    /\ queue' = << >>
    /\ log' = Append(log, Entry("stop", 0, 0))

\* handleTextToSpeech of app/(tabs)/index.tsx, up to its await
MobileHandleTextToSpeech ==
    /\ client = "mobile"
    /\ pc.at = "idle"
    /\ IF isSpeaking
       THEN /\ MobileStopSpeaking
            /\ isSpeaking' = FALSE
            /\ UNCHANGED << client, jobs, events, pc >>
       ELSE /\ Len(jobs) < MaxJobs
            /\ isSpeaking' = TRUE
            /\ \E text \in SpokenTexts : MobileSpeak(text, "screen")
    /\ UNCHANGED << synthesis, segVars, extVars, voiceVars, chatVars, recVars >>

\* the auto-speak branch of handleSendMessage of app/(tabs)/index.tsx
MobileAutoSpeak ==
    /\ client = "mobile"
    /\ pc.at = "idle"
    /\ Len(jobs) < MaxJobs
    /\ isSpeaking' = TRUE
    /\ \E text \in SpokenTexts : MobileSpeak(text, "screen")
    /\ UNCHANGED << synthesis, segVars, extVars, voiceVars, chatVars, recVars >>

\* handleSpeak of app/(tabs)/vocabulary.tsx
MobileHandleSpeak ==
    /\ client = "mobile"
    /\ pc.at = "idle"
    /\ Len(jobs) < MaxJobs
    /\ \E text \in SpokenTexts : MobileSpeak(text, "vocabulary")
    /\ UNCHANGED isSpeaking
    /\ UNCHANGED << synthesis, segVars, extVars, voiceVars, chatVars, recVars >>

\* the async speak resumes after an await: the next iteration of
\* for (const group of groups) { await Speech.speak(...) }, or the end of
\* the loop, where the caller's await returns and it sets isSpeaking false
MobileResume ==
    /\ client = "mobile"
    /\ pc.at = "loop"
    /\ LET groups == jobs[pc.job].groups
       IN  IF pc.i <= Len(groups)
           THEN /\ queue' = Append(queue, Utterance(pc.job, pc.i, groups[pc.i]))
                /\ log' = Append(log, Entry("speak", pc.job, pc.i))
                /\ pc' = [pc EXCEPT !.i = pc.i + 1]
                /\ UNCHANGED isSpeaking
           ELSE /\ pc' = Idle
                /\ isSpeaking' = IF pc.caller = "screen" THEN FALSE ELSE isSpeaking
                /\ UNCHANGED << queue, log >>
    /\ UNCHANGED << client, jobs, events >>
    /\ UNCHANGED << synthesis, segVars, extVars, voiceVars, chatVars, recVars >>

Next ==
    \/ WebHandleTextToSpeech
    \/ WebAutoSpeak
    \/ WebDeliver
    \/ BackendFinish
    \/ BackendError
    \/ MobileHandleTextToSpeech
    \/ MobileAutoSpeak
    \/ MobileHandleSpeak
    \/ MobileResume

Spec == Init /\ [][Next]_vars

\* ------------------------------------------------------------------------
\* The segmenters on their own: every text of at most MaxLen characters
\* over SegChars ("д", "ё", "a", space, tab, "(", ")"), the greeting and a
\* text of mixed-script, digit and punctuation tokens
\* ------------------------------------------------------------------------
SegChars == {1076, 1105, 97, Space, 9, LParen, RParen}

\* "Привет, how are you?"
Greeting ==
    << 1055, 1088, 1080, 1074, 1077, 1090, 44, 32, 104, 111, 119, 32,
       97, 114, 101, 32, 121, 111, 117, 63 >>

\* "Ё1 a1Я 42 ?!"
MixedTokens == << 1025, 49, 32, 97, 49, 1071, 32, 52, 50, 32, 63, 33 >>

SegInputs ==
    UNION { [1..n -> SegChars] : n \in 0..MaxLen } \cup { Greeting, MixedTokens }

InitSeg ==
    /\ client = "web"
    /\ synthesis = "speechSynthesis"
    /\ jobs = << >>
    /\ queue = << >>
    /\ events = << >>
    /\ isSpeaking = FALSE
    /\ pc = Idle
    /\ log = << >>
    /\ input \in SegInputs
    /\ out = NoOut
    /\ model = "null"
    /\ completion = [ok |-> FALSE, text |-> << >>]
    /\ tutorReply = Pending(NoTutorRecord)
    /\ wordData = Pending(NoWordRecord)
    /\ VoiceIdle
    /\ ChatIdle
    /\ ListenIdle

\* the segmentation part of VoiceService.speak of geminiService.ts
SegmentWeb ==
    /\ ~out.webDone
    /\ out' = [out EXCEPT !.webDone = TRUE, !.web = WebGroups(input)]
    /\ UNCHANGED << input, orchVars, extVars, voiceVars, chatVars, recVars >>

\* the segmentation part of VoiceService.speak of voiceService.ts
SegmentMobile ==
    /\ ~out.mobileDone
    /\ out' = [out EXCEPT !.mobileDone = TRUE, !.mobile = MobileGroups(input)]
    /\ UNCHANGED << input, orchVars, extVars, voiceVars, chatVars, recVars >>

NextSeg ==
    \/ SegmentWeb
    \/ SegmentMobile

SpecSeg == InitSeg /\ [][NextSeg]_vars

TypeOK ==
    /\ client \in {"web", "mobile"}
    /\ isSpeaking \in BOOLEAN
    /\ Len(jobs) <= MaxJobs

\* ------------------------------------------------------------------------
\* GeminiService: the calls and their promises
\* ------------------------------------------------------------------------
\* the state of a freshly constructed GeminiService and VoiceService
InitExtract ==
    /\ model = "null"
    /\ completion \in Completions
    /\ tutorReply = Pending(NoTutorRecord)
    /\ wordData = Pending(NoWordRecord)
    /\ VoiceIdle
    /\ ChatIdle
    /\ ListenIdle
    /\ client = "web"
    /\ synthesis = "speechSynthesis"
    /\ jobs = << >>
    /\ queue = << >>
    /\ events = << >>
    /\ isSpeaking = FALSE
    /\ pc = Idle
    /\ log = << >>
    /\ input = << >>
    /\ out = NoOut

\* GeminiService.initialize(apiKey)
Initialize ==
    /\ model = "null"
    /\ model' = "GenerativeModel"
    /\ UNCHANGED << completion, tutorReply, wordData, orchVars, segVars,
                   voiceVars, chatVars, recVars >>

\* variant: no check of this.model; generateContent on null throws inside
\* the try and the catch returns its record
GenerateVictorAIResponseUnguarded ==
    /\ tutorReply.state = "none"
    /\ tutorReply' =
           IF model = "null"
           THEN [state |-> "resolved", value |-> TutorCatch, service |-> model,
                 asked |-> FALSE, error |-> ""]
           ELSE Resolved(generateVictorAIResponse(completion), model)
    /\ UNCHANGED << model, completion, wordData, orchVars, segVars,
                   voiceVars, chatVars, recVars >>

\* GeminiService.generateVictorAIResponse(...): throws before the try where
\* the model is not set
GenerateVictorAIResponse ==
    /\ tutorReply.state = "none"
    /\ tutorReply' = IF model = "null"
                     THEN Rejected(NoTutorRecord, model)
                     ELSE Resolved(generateVictorAIResponse(completion), model)
    /\ UNCHANGED << model, completion, wordData, orchVars, segVars,
                   voiceVars, chatVars, recVars >>

\* GeminiService.fetchWordData(word)
FetchWordData ==
    /\ wordData.state = "none"
    /\ wordData' = IF model = "null"
                   THEN Rejected(NoWordRecord, model)
                   ELSE Resolved(fetchWordData(completion), model)
    /\ UNCHANGED << model, completion, tutorReply, orchVars, segVars,
                   voiceVars, chatVars, recVars >>

NextExtract ==
    \/ Initialize
    \/ GenerateVictorAIResponse
    \/ FetchWordData

SpecExtract == InitExtract /\ [][NextExtract]_vars

\* ------------------------------------------------------------------------
\* Voice selection (getVoice and speakGroup of geminiService.ts)
\* ------------------------------------------------------------------------
MaxVoices == 3

\* s.startsWith(p)
StartsWith(s, p) == Len(s) >= Len(p) /\ SubSeq(s, 1, Len(p)) = p

\* s.includes(p)
Includes(s, p) ==
    \E k \in 1..(Len(s) - Len(p) + 1) : SubSeq(s, k, k + Len(p) - 1) = p

\* the literals 'ru', 'en' and 'Natural'
RuPrefix == << 114, 117 >>
EnPrefix == << 101, 110 >>
NaturalWord == << 78, 97, 116, 117, 114, 97, 108 >>

\* a SpeechSynthesisVoice; utterance.voice = null leaves the choice to the
\* backend
Voice(lang, name) == [lang |-> lang, name |-> name]
NullVoice == Voice(<< >>, << >>)

\* voices a browser may advertise: Milena (ru-RU), Yuri (ru), Sam (en-US),
\* UK Natural (en-GB), Natural (de-DE)
AdvertisedVoices ==
    { Voice(<< 114, 117, 45, 82, 85 >>, << 77, 105, 108, 101, 110, 97 >>),
      Voice(<< 114, 117 >>, << 89, 117, 114, 105 >>),
      Voice(<< 101, 110, 45, 85, 83 >>, << 83, 97, 109 >>),
      Voice(<< 101, 110, 45, 71, 66 >>, << 85, 75, 32 >> \o NaturalWord),
      Voice(<< 100, 101, 45, 68, 69 >>, NaturalWord) }

VoiceLists == UNION { [1..n -> AdvertisedVoices] : n \in 0..MaxVoices }

RECURSIVE FindRu(_), FindEnNatural(_), FindEn(_)

\* voices.find(v => v.lang.startsWith('ru')) || null
FindRu(vs) ==
    IF vs = << >> THEN NullVoice
    ELSE IF StartsWith(Head(vs).lang, RuPrefix) THEN Head(vs)
         ELSE FindRu(Tail(vs))

\* voices.find(v => v.lang.startsWith('en') && v.name.includes('Natural'))
FindEnNatural(vs) ==
    IF vs = << >> THEN NullVoice
    ELSE IF StartsWith(Head(vs).lang, EnPrefix) /\ Includes(Head(vs).name, NaturalWord)
         THEN Head(vs)
         ELSE FindEnNatural(Tail(vs))

\* voices.find(v => v.lang.startsWith('en')) || null
FindEn(vs) ==
    IF vs = << >> THEN NullVoice
    ELSE IF StartsWith(Head(vs).lang, EnPrefix) THEN Head(vs)
         ELSE FindEn(Tail(vs))

\* variant: the English voice is taken without the preference for 'Natural'
getVoiceAnyEnglish(vs, lang) ==
    IF lang = "ru-RU" THEN FindRu(vs) ELSE FindEn(vs)

\* getVoice(lang)
getVoice(vs, lang) ==
    IF lang = "ru-RU" THEN FindRu(vs)
    ELSE IF FindEnNatural(vs) # NullVoice THEN FindEnNatural(vs) ELSE FindEn(vs)

\* the groups of the text "д a д": a Russian, an English and a Russian run
VoiceGroups == WebGroups(<< 1076, 32, 97, 32, 1076 >>)

\* speak was called with some list of voices advertised
InitVoice ==
    /\ voices \in VoiceLists
    /\ spoken = << >>
    /\ ChatIdle
    /\ ListenIdle
    /\ client = "web"
    /\ synthesis = "speechSynthesis"
    /\ jobs = << >>
    /\ queue = << >>
    /\ events = << >>
    /\ isSpeaking = FALSE
    /\ pc = Idle
    /\ log = << >>
    /\ input = << >>
    /\ out = NoOut
    /\ model = "null"
    /\ completion = [ok |-> FALSE, text |-> << >>]
    /\ tutorReply = Pending(NoTutorRecord)
    /\ wordData = Pending(NoWordRecord)

\* speakGroup(i): the utterance of the next group is built and handed to
\* synthesis.speak
SpeakGroupWithVoice ==
    /\ Len(spoken) < Len(VoiceGroups)
    /\ LET g == VoiceGroups[Len(spoken) + 1]
       IN  spoken' = Append(spoken, [lang |-> g.lang, text |-> g.text,
                                     voice |-> getVoice(voices, g.lang)])
    /\ UNCHANGED << voices, orchVars, segVars, extVars, chatVars, recVars >>

NextVoice == SpeakGroupWithVoice

SpecVoice == InitVoice /\ [][NextVoice]_vars

\* ------------------------------------------------------------------------
\* Chat list (pages/Index.tsx)
\* ------------------------------------------------------------------------
MaxChats == 3
MaxTime == 4

\* a chat is modelled by its id, 'chat-' + Date.now() by the time read
ChatOp(op, id, only) == [op |-> op, id |-> id, only |-> only]

\* chats.filter(chat => chat.id !== chatId)
WithoutChat(list, chatId) == SelectSeq(list, LAMBDA id : id # chatId)

\* the page after its mount effect: the default chat, or the chats found in
\* localStorage, the first of them active
InitChat ==
    /\ now = 2
    /\ chats \in { << 2 >>, << 2, 1 >> }
    /\ activeChatId = chats[1]
    /\ lastOp = ChatOp("none", 0, FALSE)
    /\ VoiceIdle
    /\ ListenIdle
    /\ client = "web"
    /\ synthesis = "speechSynthesis"
    /\ jobs = << >>
    /\ queue = << >>
    /\ events = << >>
    /\ isSpeaking = FALSE
    /\ pc = Idle
    /\ log = << >>
    /\ input = << >>
    /\ out = NoOut
    /\ model = "null"
    /\ completion = [ok |-> FALSE, text |-> << >>]
    /\ tutorReply = Pending(NoTutorRecord)
    /\ wordData = Pending(NoWordRecord)

\* time passes
Tick ==
    /\ now < MaxTime
    /\ now' = now + 1
    /\ UNCHANGED << chats, activeChatId, lastOp >>
    /\ UNCHANGED << orchVars, segVars, extVars, voiceVars, recVars >>

\* handleNewChat: setChats(prev => [newChat, ...prev]); setActiveChatId(newId)
HandleNewChat ==
    /\ Len(chats) < MaxChats
    /\ chats' = << now >> \o chats
    /\ activeChatId' = now
    /\ lastOp' = ChatOp("new", now, FALSE)
    /\ UNCHANGED now
    /\ UNCHANGED << orchVars, segVars, extVars, voiceVars, recVars >>

\* the onClick of a chat row: setActiveChatId(chat.id)
SelectChat(chatId) ==
    /\ activeChatId # chatId
    /\ activeChatId' = chatId
    /\ lastOp' = ChatOp("select", chatId, FALSE)
    /\ UNCHANGED << chats, now >>
    /\ UNCHANGED << orchVars, segVars, extVars, voiceVars, recVars >>

\* handleDeleteChat(chatId).  chats and activeChatId are the values of the
\* render the handler was created in.  Where the filtered list is empty,
\* handleNewChat() queues setChats(prev => [newChat, ...prev]) and
\* setActiveChatId(newId), then newChats = chats; the setChats(newChats) that
\* follows replaces the list the queued updater made, and setActiveChatId of
\* the last line, where it runs, replaces the new id.
HandleDeleteChat(chatId) ==
    LET filtered == WithoutChat(chats, chatId)
        newChats == IF filtered = << >> THEN chats ELSE filtered
    IN  /\ chats' = newChats
        /\ activeChatId' = IF activeChatId = chatId /\ newChats # << >>
                           THEN newChats[1]
                           ELSE IF filtered = << >> THEN now
                           ELSE activeChatId
        /\ lastOp' = ChatOp("delete", chatId, filtered = << >>)
        /\ UNCHANGED now
        /\ UNCHANGED << orchVars, segVars, extVars, voiceVars, recVars >>

NextChat ==
    \/ Tick
    \/ HandleNewChat
    \/ \E k \in 1..Len(chats) : SelectChat(chats[k])
    \/ \E k \in 1..Len(chats) : HandleDeleteChat(chats[k])

SpecChat == InitChat /\ [][NextChat]_vars

\* ========================================================================
\* Speech recognition: VoiceService.startListening / stopListening and the
\* events of the SpeechRecognition object (web)
\* ========================================================================
\* how many startListening calls the page makes
MaxCalls == 3

\* this.recognition: "null" when the browser has no SpeechRecognition;
\* otherwise the phase of the recognizer, the number of the last session it
\* started, and the session (0: none) whose end event is still to come
\* although a newer session has started
Recognition(phase, session, late) ==
    [phase |-> phase, session |-> session, late |-> late]

\* an entry of the history: what happened, the startListening call whose
\* callbacks are installed afterwards, the session concerned, the value of
\* isListening before the step, and the number of sessions started so far
Heard(op, call, session, flag, sessions) ==
    [op |-> op, call |-> call, session |-> session, flag |-> flag,
     sessions |-> sessions]

\* the startListening calls made so far
CallsMade ==
    Cardinality({ p \in 1..Len(heard) :
        heard[p].op \in { "unsupported", "ignored", "started", "throw" } })

\* new VoiceService(): recognition is created only where the browser has it
InitListen ==
    /\ isListening = FALSE
    /\ recognition \in { Recognition("idle", 0, 0), Recognition("null", 0, 0) }
    /\ handlers = 0
    /\ heard = << >>
    /\ VoiceIdle
    /\ ChatIdle
    /\ client = "web"
    /\ synthesis = "speechSynthesis"
    /\ jobs = << >>
    /\ queue = << >>
    /\ events = << >>
    /\ isSpeaking = FALSE
    /\ pc = Idle
    /\ log = << >>
    /\ input = << >>
    /\ out = NoOut
    /\ model = "null"
    /\ completion = [ok |-> FALSE, text |-> << >>]
    /\ tutorReply = Pending(NoTutorRecord)
    /\ wordData = Pending(NoWordRecord)

\* startListening(onResult, onEnd, onError).  recognition.start() throws
\* InvalidStateError on a recognizer that has started and has fired neither
\* error nor end; after an error event and before the end event browsers
\* differ: start() throws, or a new session starts and the end event of the
\* failed one arrives during it
StartListening ==
    /\ CallsMade < MaxCalls
    /\ LET call == CallsMade + 1
       IN  IF recognition.phase = "null"
           THEN /\ heard' = Append(heard, Heard("unsupported", handlers,
                                   recognition.session, isListening,
                                   recognition.session))
                /\ UNCHANGED << isListening, recognition, handlers >>
           ELSE IF isListening
           THEN /\ heard' = Append(heard, Heard("ignored", handlers,
                                   recognition.session, isListening,
                                   recognition.session))
                /\ UNCHANGED << isListening, recognition, handlers >>
           ELSE /\ isListening' = TRUE
                /\ handlers' = call
                /\ \/ /\ recognition.phase = "idle"
                      /\ recognition' = Recognition("active",
                              recognition.session + 1, recognition.late)
                      /\ heard' = Append(heard, Heard("started", call,
                              recognition.session + 1, isListening,
                              recognition.session + 1))
                   \/ /\ recognition.phase \in { "active", "stopping", "ending" }
                      /\ UNCHANGED recognition
                      /\ heard' = Append(heard, Heard("throw", call,
                              recognition.session, isListening,
                              recognition.session))
                   \/ /\ recognition.phase = "ending"
                      /\ recognition.late = 0
                      /\ recognition' = Recognition("active",
                              recognition.session + 1, recognition.session)
                      /\ heard' = Append(heard, Heard("started", call,
                              recognition.session + 1, isListening,
                              recognition.session + 1))
    /\ UNCHANGED << orchVars, segVars, extVars, voiceVars, chatVars >>

\* stopListening(): recognition.stop() asks a running session to finish, its
\* end event comes later; the flag is cleared at once
StopListening ==
    /\ IF recognition.phase # "null" /\ isListening
       THEN /\ recognition' =
                   IF recognition.phase = "active"
                   THEN Recognition("stopping", recognition.session,
                                    recognition.late)
                   ELSE recognition
            /\ isListening' = FALSE
            /\ heard' = Append(heard, Heard("stop", handlers,
                               recognition.session, isListening,
                               recognition.session))
       ELSE UNCHANGED << isListening, recognition, heard >>
    /\ UNCHANGED handlers
    /\ UNCHANGED << orchVars, segVars, extVars, voiceVars, chatVars >>

\* recognition.onresult: a final transcript goes to onResult of the installed
\* callbacks (one per session here)
OnResult ==
    /\ recognition.phase \in { "active", "stopping" }
    /\ \A p \in 1..Len(heard) :
           ~(heard[p].op = "result" /\ heard[p].session = recognition.session)
    /\ heard' = Append(heard, Heard("result", handlers, recognition.session,
                                    isListening, recognition.session))
    /\ UNCHANGED << isListening, recognition, handlers >>
    /\ UNCHANGED << orchVars, segVars, extVars, voiceVars, chatVars >>

\* recognition.onerror: isListening = false, onError(...); the end event of
\* the session follows
OnError ==
    /\ recognition.phase \in { "active", "stopping" }
    /\ isListening' = FALSE
    /\ recognition' = Recognition("ending", recognition.session,
                                  recognition.late)
    /\ heard' = Append(heard, Heard("error", handlers, recognition.session,
                                    isListening, recognition.session))
    /\ UNCHANGED handlers
    /\ UNCHANGED << orchVars, segVars, extVars, voiceVars, chatVars >>

\* recognition.onend for the recognizer's current session: isListening =
\* false, onEnd()
OnEnd ==
    /\ recognition.phase \in { "active", "stopping", "ending" }
    /\ recognition.late = 0
    /\ isListening' = FALSE
    /\ recognition' = Recognition("idle", recognition.session, 0)
    /\ heard' = Append(heard, Heard("end", handlers, recognition.session,
                                    isListening, recognition.session))
    /\ UNCHANGED handlers
    /\ UNCHANGED << orchVars, segVars, extVars, voiceVars, chatVars >>

\* recognition.onend for the failed session that a newer one has overtaken
OnLateEnd ==
    /\ recognition.late # 0
    /\ isListening' = FALSE
    /\ recognition' = Recognition(recognition.phase, recognition.session, 0)
    /\ heard' = Append(heard, Heard("end", handlers, recognition.late,
                                    isListening, recognition.session))
    /\ UNCHANGED handlers
    /\ UNCHANGED << orchVars, segVars, extVars, voiceVars, chatVars >>

NextListen ==
    \/ StartListening
    \/ StopListening
    \/ OnResult
    \/ OnError
    \/ OnEnd
    \/ OnLateEnd

SpecListen == InitListen /\ [][NextListen]_vars

\* ========================================================================
\* Properties of the synthesis orchestration (checked under Spec)
\* ========================================================================
Positions == 1..Len(log)

JobIds == 1..Len(jobs)

RunCount(j) == Len(jobs[j].groups)

\* the position of speak call j in the history
CallPos(j) == CHOOSE p \in Positions : log[p] = Entry("call", j, 0)

\* how often entry e occurs in the history
Count(e) == Cardinality({ p \in Positions : log[p] = e })

\* position p requests a run of job j from the backend / calls j's onEnd
IssuesOrCompletes(p, j) == log[p].job = j /\ log[p].op \in {"speak", "done"}

\* the completion signal of run i of job j reached the client before p: the
\* end event delivered to the web handler, the run being over on mobile
SignalledBefore(j, i, p) ==
    \E q \in 1..(p - 1) :
        log[q] = Entry(IF client = "web" THEN "end" ELSE "over", j, i)

\* how the outcome of a run reaches the client: the events delivered to the
\* web handlers; the backend's own progress on mobile, which has no handlers
SignalOps == IF client = "web" THEN {"end", "error"} ELSE {"over"}

\* at position p run i of job j is in progress: it was issued to the backend,
\* the backend was not cancelled since, and its outcome was not yet signalled
InProgressAt(j, i, p) ==
    \E q \in 1..(p - 1) :
        /\ log[q] = Entry("speak", j, i)
        /\ \A r \in (q + 1)..(p - 1) :
               /\ log[r].op \notin {"cancel", "stop"}
               /\ ~(log[r].job = j /\ log[r].i = i /\ log[r].op \in SignalOps)

\* job j was stopped, or superseded by a later speak call, before position p
CancelledBefore(j, p) ==
    \E c \in 1..(p - 1) :
        /\ c > CallPos(j)
        /\ \/ log[c].op = "stop"
           \/ log[c].op = "cancel" /\ log[c].job # j

\* C1: for a job whose text segments into runs r1..rn the backend speak calls
\* are issued in run order, with the runs' text and language, and the call for
\* run i+1 is not issued before the backend has signalled completion of run
\* i, in the web client and in the mobile client.
RunsIssuedSequentially ==
    /\ \A p \in Positions :
           log[p].op = "speak" =>
               /\ log[p].i =
                      1 + Cardinality({ q \in 1..(p - 1) :
                                          log[q].op = "speak" /\ log[q].job = log[p].job })
               /\ log[p].i > 1 => SignalledBefore(log[p].job, log[p].i - 1, p)
    /\ \A k \in 1..Len(queue) :
           /\ queue[k].text = jobs[queue[k].job].groups[queue[k].i].text
           /\ queue[k].lang = jobs[queue[k].job].groups[queue[k].i].lang

\* C2: if stop is called while run i of an n-run job is in progress (i < n),
\* no later run of that job is issued to the backend from then on and the
\* job's onComplete is never invoked.
StopSilencesJob ==
    \A p \in Positions, j \in JobIds :
        (/\ log[p].op = "stop"
         /\ \E i \in 1..(RunCount(j) - 1) : InProgressAt(j, i, p))
        => \A q \in (p + 1)..Len(log) : ~IssuesOrCompletes(q, j)

\* C3: a completion signal delivered for a run of a job that was already
\* stopped or superseded is a no-op: it issues no backend speak call and
\* invokes no callback.
StaleCompletionIsNoOp ==
    \A p \in Positions :
        (log[p].op = "end" /\ CancelledBefore(log[p].job, p))
        => \A q \in (p + 1)..Len(log) : ~IssuesOrCompletes(q, log[p].job)

\* C4: once speak(B) is called while job A is in progress, the backend is
\* cancelled first, no run of A is issued from then on, A's onComplete is
\* never invoked, and until the next speak call the backend receives runs of
\* B only.
NewJobSupersedes ==
    \A p \in Positions, a \in JobIds :
        (/\ log[p].op = "call"
         /\ \E i \in 1..RunCount(a) : InProgressAt(a, i, p))
        => /\ log[p + 1] = Entry("cancel", log[p].job, 0)
           /\ \A q \in (p + 1)..Len(log) :
                  /\ ~IssuesOrCompletes(q, a)
                  /\ (/\ log[q].op = "speak"
                      /\ \A r \in (p + 1)..q : log[r].op # "call")
                     => log[q].job = log[p].job

\* job j has an onEnd callback and at least one run, was neither stopped nor
\* superseded, and was signalled no error for any of its runs
Undisturbed(j) ==
    /\ jobs[j].onEnd
    /\ RunCount(j) >= 1
    /\ ~CancelledBefore(j, Len(log) + 1)
    /\ \A i \in 1..RunCount(j) : Count(Entry("error", j, i)) = 0

\* C5: when a job of n >= 1 runs is neither stopped nor superseded and the
\* backend signals completion of each run once, onComplete is invoked
\* exactly once, and only after the completion signal of the final run.
CompletesExactlyOnce ==
    \A j \in JobIds :
        Undisturbed(j) =>
            /\ Count(Entry("done", j, 0)) <= 1
            /\ \A p \in Positions :
                   log[p] = Entry("done", j, 0) =>
                       \E q \in 1..(p - 1) : log[q] = Entry("end", j, RunCount(j))
            /\ (\A i \in 1..RunCount(j) : Count(Entry("end", j, i)) = 1)
                   => Count(Entry("done", j, 0)) = 1

\* a three-run job ran to its end undisturbed and its onEnd was called
CompletesExactlyOnceWitness ==
    \E j \in JobIds :
        /\ Undisturbed(j)
        /\ RunCount(j) = 3
        /\ \A i \in 1..3 : Count(Entry("end", j, i)) = 1
        /\ Count(Entry("done", j, 0)) = 1

\* C6: if the backend reports a runtime error for a run instead of
\* completing it, the job still terminates: once the backend has nothing
\* left to play or to deliver, a job that was not cancelled and was
\* signalled the error of a run has had its onComplete invoked once.
FailedRunStillCompletes ==
    \A j \in JobIds :
        (/\ jobs[j].onEnd
         /\ queue = << >>
         /\ events = << >>
         /\ ~CancelledBefore(j, Len(log) + 1)
         /\ \E i \in 1..RunCount(j) : Count(Entry("error", j, i)) > 0)
        => Count(Entry("done", j, 0)) = 1

\* the latest speak call
ActiveJob == Len(jobs)

\* the active job has run to its end: its onEnd was called (web), or all
\* its runs are over at the backend (mobile)
ActiveJobCompleted ==
    \/ Count(Entry("done", ActiveJob, 0)) > 0
    \/ /\ client = "mobile"
       /\ pc.at = "idle"
       /\ \A i \in 1..RunCount(ActiveJob) : Count(Entry("over", ActiveJob, i)) > 0

\* stop was called after the active job was started
ActiveJobStopped ==
    \E p \in Positions : p > CallPos(ActiveJob) /\ log[p].op = "stop"

\* C7: for a job started from the chat screen, isSpeaking is never false
\* while a run of the active job is still queued or playing at the backend,
\* and is not true once the active job has completed or been stopped.
IsSpeakingTracksJob ==
    (jobs # << >> /\ jobs[ActiveJob].caller = "screen") =>
        /\ (\E k \in 1..Len(queue) : queue[k].job = ActiveJob) => isSpeaking
        /\ (ActiveJobCompleted \/ ActiveJobStopped) => ~isSpeaking

\* ========================================================================
\* Properties of the segmenters (checked under SpecSeg)
\* ========================================================================

\* C8: for every input text, concatenating in order the text of all runs
\* produced by segmentation equals the cleaned input (parenthesized asides
\* removed, every whitespace run collapsed to one space, both ends trimmed),
\* in the web client and in the mobile client.
SegmentationRoundTrip ==
    /\ out.webDone =>
           ConcatText(out.web) = Trim(CollapseWhitespace(StripParens(input)))
    /\ out.mobileDone =>
           ConcatText(out.mobile) = Trim(CollapseWhitespace(StripParens(input)))

\* a text with an aside and a whitespace run was cut into two runs by both
SegmentationRoundTripWitness ==
    /\ out.webDone
    /\ out.mobileDone
    /\ Len(out.web) = 2
    /\ Len(out.mobile) = 2
    /\ StripParens(input) # input
    /\ CollapseWhitespace(StripParens(input)) # StripParens(input)

\* the input contains no text that the aside pattern matches
NoAside(s) ==
    ~ \E a \in 1..Len(s), b \in 1..Len(s) : a < b /\ s[a] = LParen /\ s[b] = RParen

\* every whitespace character of s is a space with no whitespace next to it
SingleSpaced(s) ==
    \A k \in 1..Len(s) :
        IsWhitespace(s[k]) =>
            /\ s[k] = Space
            /\ k > 1 => ~IsWhitespace(s[k - 1])

\* C9 as stated: concatenating the runs' text reproduces the original input
\* with its internal whitespace preserved exactly, only the leading and
\* trailing whitespace of the whole input being trimmed.
ConcatReproducesInput ==
    out.webDone => ConcatText(out.web) = Trim(input)

\* C9 as amended: the concatenation of the runs' text equals the trimmed
\* input exactly when the input has no parenthesized aside and every
\* whitespace run inside the trimmed input is one space character; an aside
\* or a longer or non-space whitespace run is not reproduced.
ConcatReproducesPlainInput ==
    out.webDone =>
        (ConcatText(out.web) = Trim(input)
            <=> (NoAside(input) /\ SingleSpaced(Trim(input))))

\* a plain text with surrounding whitespace, cut into two runs and reproduced
ConcatReproducesPlainInputWitness ==
    /\ out.webDone
    /\ Len(out.web) = 2
    /\ NoAside(input)
    /\ SingleSpaced(Trim(input))
    /\ Trim(input) # input
    /\ ConcatText(out.web) = Trim(input)

\* "Привет," and " how are you?"
GreetingHead == << 1055, 1088, 1080, 1074, 1077, 1090, 44 >>
GreetingTailSpaced == << 32, 104, 111, 119, 32, 97, 114, 101, 32, 121, 111, 117, 63 >>

\* C10 as stated: segmenting "Привет, how are you?" yields exactly the runs
\* PRIMARY "Привет," and SECONDARY " how are you?", the separating space at
\* the start of the later run.
GreetingSpaceLeads ==
    /\ (input = Greeting /\ out.webDone) =>
           out.web = << [lang |-> "ru-RU", text |-> GreetingHead],
                        [lang |-> "en-US", text |-> GreetingTailSpaced] >>
    /\ (input = Greeting /\ out.mobileDone) =>
           out.mobile = << [lang |-> "ru", text |-> GreetingHead],
                           [lang |-> "en", text |-> GreetingTailSpaced] >>

\* C10 as amended: segmenting "Привет, how are you?" yields exactly the runs
\* PRIMARY "Привет, " and SECONDARY "how are you?": the whitespace between
\* two runs of different language is placed at the end of the earlier run.
GreetingSpaceTrails ==
    /\ (input = Greeting /\ out.webDone) =>
           out.web = << [lang |-> "ru-RU", text |-> Append(GreetingHead, Space)],
                        [lang |-> "en-US", text |-> Tail(GreetingTailSpaced)] >>
    /\ (input = Greeting /\ out.mobileDone) =>
           out.mobile = << [lang |-> "ru", text |-> Append(GreetingHead, Space)],
                           [lang |-> "en", text |-> Tail(GreetingTailSpaced)] >>

\* the greeting has been segmented by both clients
GreetingSpaceTrailsWitness ==
    /\ input = Greeting
    /\ out.webDone
    /\ out.mobileDone
    /\ Len(out.web) = 2
    /\ Len(out.mobile) = 2

\* the non-whitespace tokens of a run's text
TokensOf(text) ==
    LET words == SplitKeepSpaces(text)
    IN  { words[k] : k \in { n \in 1..Len(words) :
                               words[n] # << >> /\ ~IsWhitespaceToken(words[n]) } }

\* the token contains one of the letters а-я, А-Я, ё, Ё
HasRussianLetter(w) ==
    \E k \in 1..Len(w) :
        \/ (w[k] >= 1072 /\ w[k] <= 1103)
        \/ (w[k] >= 1040 /\ w[k] <= 1071)
        \/ w[k] \in {1105, 1025}

\* C11: every run's tag equals the classification of each non-whitespace
\* token it contains, a token being PRIMARY (Russian) iff it contains at
\* least one of the letters а-я, А-Я, ё, Ё and SECONDARY (English)
\* otherwise; a mixed-script token is PRIMARY, a token of digits,
\* punctuation or Latin letters only is SECONDARY.
RunTagMatchesTokens ==
    /\ out.webDone =>
           \A k \in 1..Len(out.web) :
               /\ out.web[k].lang \in {"ru-RU", "en-US"}
               /\ \A w \in TokensOf(out.web[k].text) :
                      (out.web[k].lang = "ru-RU") <=> HasRussianLetter(w)
    /\ out.mobileDone =>
           \A k \in 1..Len(out.mobile) :
               /\ out.mobile[k].lang \in {"ru", "en"}
               /\ \A w \in TokensOf(out.mobile[k].text) :
                      (out.mobile[k].lang = "ru") <=> HasRussianLetter(w)

\* "Ё1 a1Я 42 ?!" was cut into the PRIMARY run of "Ё1" and the mixed-script
\* "a1Я" and the SECONDARY run of the digits and the punctuation
RunTagMatchesTokensWitness ==
    /\ input = MixedTokens
    /\ out.webDone
    /\ out.mobileDone
    /\ Len(out.web) = 2
    /\ out.web[1].lang = "ru-RU"
    /\ << 97, 49, 1071 >> \in TokensOf(out.web[1].text)
    /\ out.web[2].lang = "en-US"
    /\ << 52, 50 >> \in TokensOf(out.web[2].text)
    /\ Len(out.mobile) = 2

\* '(' minus ')' among positions a..b of s
ParenDepth(s, a, b) ==
    Cardinality({ k \in a..b : s[k] = LParen })
        - Cardinality({ k \in a..b : s[k] = RParen })

\* the ')' at position b is the one matching the '(' at position a
MatchingParens(s, a, b) ==
    /\ a < b
    /\ s[a] = LParen
    /\ s[b] = RParen
    /\ ParenDepth(s, a + 1, b - 1) = 0
    /\ \A m \in (a + 1)..(b - 1) : ParenDepth(s, a + 1, m) >= 0

\* position k of s lies between a '(' and its matching ')'
InsideAside(s, k) ==
    \E a \in 1..(k - 1), b \in (k + 1)..Len(s) : MatchingParens(s, a, b)

\* the characters (other than whitespace and parentheses) whose every
\* occurrence in s lies inside a parenthesized aside
AsideOnlyChars(s) ==
    { s[k] : k \in { n \in 1..Len(s) :
                       /\ ~IsWhitespace(s[n])
                       /\ s[n] \notin {LParen, RParen}
                       /\ \A m \in 1..Len(s) : s[m] = s[n] => InsideAside(s, m) } }

\* the characters of the runs' text
CharsOf(groups) == { ConcatText(groups)[k] : k \in 1..Len(ConcatText(groups)) }

\* C12: for every input, no character that lies between a '(' and its
\* matching ')' appears in the text of any run, for single, adjacent and
\* nested parenthesized asides: a character that the input has inside
\* asides only is in no run.
AsidesNeverSpoken ==
    /\ out.webDone => AsideOnlyChars(input) \cap CharsOf(out.web) = { }
    /\ out.mobileDone => AsideOnlyChars(input) \cap CharsOf(out.mobile) = { }

OnlyWhitespace(s) == \A k \in 1..Len(s) : IsWhitespace(s[k])

\* C13: segmentation yields zero runs for the empty string, for a
\* whitespace-only string, and for any string that is empty after cleaning
\* (such as one made of parenthesized asides and whitespace only).
EmptyInputYieldsNoRuns ==
    /\ (out.webDone /\ (input = << >> \/ OnlyWhitespace(input)
                          \/ WebCleanedText(input) = << >>))
          => out.web = << >>
    /\ (out.mobileDone /\ (input = << >> \/ OnlyWhitespace(input)
                             \/ MobileCleanedText(input) = << >>))
          => out.mobile = << >>

EmptyInputYieldsNoRunsWitness ==
    /\ input = << Space, LParen, 97, RParen, 9 >>
    /\ WebCleanedText(input) = << >>
    /\ out.webDone
    /\ out.mobileDone
    /\ out.web = << >>
    /\ out.mobile = << >>

UnsupportedSpeakIsSignalled ==
    synthesis = "undefined" =>
        \A j \in JobIds :
            /\ \A p \in Positions : ~(log[p].op = "speak" /\ log[p].job = j)
            /\ Count(Entry("reject", j, 0)) = 0
            /\ Count(Entry("done", j, 0)) = 1
            /\ Len(log) > CallPos(j)
            /\ log[CallPos(j) + 1] = Entry("done", j, 0)

\* ========================================================================
\* Properties of the extraction (checked under SpecExtract)
\* ========================================================================
\* the completion held an object that was parsed / that object
HasParsedObject ==
    /\ completion.ok
    /\ jsonMatch(completion.text).found
    /\ JSONParse(jsonMatch(completion.text).text).ok

ParsedObject == JSONParse(jsonMatch(completion.text).text).val

NonEmptyString(v) == v.t = "string" /\ v.s # ""

NonEmptyList(v) == v.t = "array" /\ v.items # << >>

\* C16: given a parsed object whose reply field is valid but whose
\* corrections value is not a list (a non-empty string, a number, an
\* object), extraction returns the payload's reply and omits corrections;
\* corrections is present in the result only when the payload supplied a
\* non-empty list.
MalformedCorrectionsOmitted ==
    (/\ tutorReply.state = "resolved"
     /\ HasParsedObject
     /\ NonEmptyString(Get(ParsedObject, "response")))
        => /\ Get(ParsedObject, "corrections").t \notin {"array", "undefined"}
                => /\ tutorReply.value.response = Get(ParsedObject, "response")
                   /\ tutorReply.value.corrections = Undefined
           /\ tutorReply.value.corrections # Undefined
                => NonEmptyList(Get(ParsedObject, "corrections"))

\* the fenced json blocks of the completion whose interior parses: a json
\* fence at i, a closing fence at j
ParsableFencedBlocks ==
    { b \in (1..Len(completion.text)) \X (1..Len(completion.text)) :
        /\ b[1] < b[2]
        /\ completion.text[b[1]] = FenceJson
        /\ completion.text[b[2]] = Fence
        /\ JSONParse(SubSeq(completion.text, b[1] + 1, b[2] - 1)).ok }

FencedValue(b) == JSONParse(SubSeq(completion.text, b[1] + 1, b[2] - 1)).val

\* the text from the first '{' to the last '}' exists and does not parse
OuterBracesUnparsable ==
    /\ completion.ok
    /\ BraceMatch(completion.text).found
    /\ ~JSONParse(BraceMatch(completion.text).text).ok

\* C17: when the substring from the first '{' to the last '}' of the raw
\* text exists but does not parse, the extractor next looks for a fenced json
\* block and, if the block's interior parses, returns the record read from
\* it; defaults are returned only when both strategies fail.
FenceTriedAfterParseFailure ==
    (OuterBracesUnparsable /\ ParsableFencedBlocks # { }) =>
        /\ tutorReply.state = "resolved" =>
               \E b \in ParsableFencedBlocks :
                   tutorReply.value = TutorFields(FencedValue(b))
        /\ wordData.state = "resolved" =>
               \E b \in ParsableFencedBlocks :
                   wordData.value = WordFields(FencedValue(b))

\* the TutorReply shape: reply and followUp are strings, corrections is a
\* non-empty list or absent, the tips are objects or absent
TutorShaped(r) ==
    /\ r.response.t = "string"
    /\ r.followUpQuestion.t = "string"
    /\ r.corrections = Undefined \/ NonEmptyList(r.corrections)
    /\ r.vocabularyTip.t \in {"undefined", "object"}
    /\ r.pronunciationTip.t \in {"undefined", "object"}

\* the WordLookup shape: two strings and a list
WordShaped(r) ==
    /\ r.phonetic.t = "string"
    /\ r.examples.t = "array"
    /\ r.translation.t = "string"

\* the call was made, on an initialized service
MadeInitialized(promise) == promise.state # "none" /\ promise.service # "null"

\* C18: on an initialized service, for every raw completion text (and for a
\* failing LLM call) generateVictorAIResponse and fetchWordData resolve with
\* a record of the target shape; they never throw or reject because of
\* missing braces, unparsable JSON or wrong-typed fields.
AlwaysResolvesShaped ==
    /\ MadeInitialized(tutorReply) =>
           tutorReply.state = "resolved" /\ TutorShaped(tutorReply.value)
    /\ MadeInitialized(wordData) =>
           wordData.state = "resolved" /\ WordShaped(wordData.value)

\* positions a..b of the completion hold a well-formed JSON object and no
\* '{' or '}' stands outside of them
SingleObjectAt(a, b) ==
    /\ completion.ok
    /\ JSONParse(SubSeq(completion.text, a, b)).ok
    /\ JSONParse(SubSeq(completion.text, a, b)).val.t = "object"
    /\ \A n \in 1..Len(completion.text) :
           (n < a \/ n > b) => completion.text[n] \notin {LBrace, RBrace}

ObjectAt(a, b) == JSONParse(SubSeq(completion.text, a, b)).val

Spans == (1..Len(completion.text)) \X (1..Len(completion.text))

\* every optional field absent from the object is absent from the result
AbsentStaysAbsent(obj, r) ==
    /\ Get(obj, "corrections") = Undefined => r.corrections = Undefined
    /\ Get(obj, "vocabularyTip") = Undefined => r.vocabularyTip = Undefined
    /\ Get(obj, "pronunciationTip") = Undefined => r.pronunciationTip = Undefined

\* C19 as stated: given raw text that contains a single well-formed JSON
\* object (possibly surrounded by brace-free prose) with reply and followUp
\* fields, extraction returns exactly those two values, and every optional
\* field absent from the object is absent from the result.
HappyPathReturnsFields ==
    tutorReply.state = "resolved" =>
        \A sp \in Spans :
            (/\ SingleObjectAt(sp[1], sp[2])
             /\ Get(ObjectAt(sp[1], sp[2]), "response") # Undefined
             /\ Get(ObjectAt(sp[1], sp[2]), "followUpQuestion") # Undefined)
                => /\ tutorReply.value.response
                          = Get(ObjectAt(sp[1], sp[2]), "response")
                   /\ tutorReply.value.followUpQuestion
                          = Get(ObjectAt(sp[1], sp[2]), "followUpQuestion")
                   /\ AbsentStaysAbsent(ObjectAt(sp[1], sp[2]), tutorReply.value)

\* C19, amended: given raw text that contains a single well-formed JSON
\* object (possibly surrounded by brace-free prose) whose reply and followUp
\* fields are non-empty strings, extraction returns exactly those two
\* values, and every optional field absent from the object is absent from
\* the result.
HappyPathReturnsNonEmptyFields ==
    tutorReply.state = "resolved" =>
        \A sp \in Spans :
            (/\ SingleObjectAt(sp[1], sp[2])
             /\ NonEmptyString(Get(ObjectAt(sp[1], sp[2]), "response"))
             /\ NonEmptyString(Get(ObjectAt(sp[1], sp[2]), "followUpQuestion")))
                => /\ tutorReply.value.response
                          = Get(ObjectAt(sp[1], sp[2]), "response")
                   /\ tutorReply.value.followUpQuestion
                          = Get(ObjectAt(sp[1], sp[2]), "followUpQuestion")
                   /\ AbsentStaysAbsent(ObjectAt(sp[1], sp[2]), tutorReply.value)

\* prose, the object {"response": "Privet!", "followUpQuestion": "Kak dela?"},
\* prose: both values are returned and no optional field is set
HappyPathReturnsNonEmptyFieldsWitness ==
    /\ completion.ok
    /\ completion.text =
           << Prose >>
               \o Render(Obj(<< Member("response", Str("Privet!")),
                                Member("followUpQuestion", Str("Kak dela?")) >>))
               \o << Prose >>
    /\ SingleObjectAt(2, Len(completion.text) - 1)
    /\ tutorReply.state = "resolved"
    /\ tutorReply.value =
           TutorRecord(Str("Privet!"), Undefined, Undefined, Undefined,
                       Str("Kak dela?"))

\* the completion has no '{' at all, or no '}' at all
NoBraces ==
    /\ completion.ok
    /\ \/ \A n \in 1..Len(completion.text) : completion.text[n] # LBrace
       \/ \A n \in 1..Len(completion.text) : completion.text[n] # RBrace

\* C20: given raw text that contains no '{' or no '}' at all, extraction
\* returns the whole-record defaults unchanged: for the tutor reply the
\* default reply and followUp with no optional field, for the word lookup an
\* empty phonetic, no examples and an empty translation.
NoBracesReturnsDefaults ==
    NoBraces =>
        /\ tutorReply.state = "resolved" =>
               /\ tutorReply.value.response =
                      Str("I'm sorry, I had trouble processing that. Could you try again? I'm here to help you learn Russian!")
               /\ tutorReply.value.followUpQuestion =
                      Str("What Russian words or phrases would you like to practice today?")
               /\ tutorReply.value.corrections = Undefined
               /\ tutorReply.value.vocabularyTip = Undefined
               /\ tutorReply.value.pronunciationTip = Undefined
        /\ wordData.state = "resolved" =>
               /\ wordData.value.phonetic = Str("")
               /\ wordData.value.examples = Arr(<< >>)
               /\ wordData.value.translation = Str("")

\* prose and an object that was cut short before its '}': both calls have
\* resolved with their defaults
NoBracesReturnsDefaultsWitness ==
    /\ completion.ok
    /\ completion.text = << Prose, LBrace, StrTok("response"), Colon, StrTok("Privet!") >>
    /\ NoBraces
    /\ tutorReply.state = "resolved"
    /\ tutorReply.value.corrections = Undefined
    /\ wordData.state = "resolved"
    /\ wordData.value.examples = Arr(<< >>)

\* C21: every TutorReply returned by extraction has reply and followUp
\* present as non-empty strings: each is the payload's value when the
\* payload supplies a string, and a default string when the field is
\* missing, empty, wrong-typed, or extraction fails.
ReplyAndFollowUpAreStrings ==
    (tutorReply.state = "resolved") =>
        /\ NonEmptyString(tutorReply.value.response)
        /\ NonEmptyString(tutorReply.value.followUpQuestion)
        /\ (HasParsedObject /\ NonEmptyString(Get(ParsedObject, "response")))
               => tutorReply.value.response = Get(ParsedObject, "response")
        /\ (HasParsedObject /\ NonEmptyString(Get(ParsedObject, "followUpQuestion")))
               => tutorReply.value.followUpQuestion
                      = Get(ParsedObject, "followUpQuestion")

\* C22: vocabularyTip and pronunciationTip appear in the extracted
\* TutorReply only when the payload supplies them as objects; a payload
\* value of another type for either field is omitted from the result.
TipsOnlyWhenObjects ==
    (tutorReply.state = "resolved") =>
        /\ tutorReply.value.vocabularyTip # Undefined =>
               /\ HasParsedObject
               /\ Get(ParsedObject, "vocabularyTip").t = "object"
               /\ tutorReply.value.vocabularyTip = Get(ParsedObject, "vocabularyTip")
        /\ tutorReply.value.pronunciationTip # Undefined =>
               /\ HasParsedObject
               /\ Get(ParsedObject, "pronunciationTip").t = "object"
               /\ tutorReply.value.pronunciationTip
                      = Get(ParsedObject, "pronunciationTip")

ListOfStrings(v) ==
    v.t = "array" /\ \A n \in 1..Len(v.items) : v.items[n].t = "string"

\* C23: every WordLookup returned by fetchWordData has all three fields
\* present with their declared types (phonetic a string, examples a list of
\* strings, translation a string); a field that is missing or wrong-typed in
\* the payload, or a failed extraction, yields the empty value for that
\* field.
WordLookupTyped ==
    (wordData.state = "resolved") =>
        /\ wordData.value.phonetic.t = "string"
        /\ ListOfStrings(wordData.value.examples)
        /\ wordData.value.translation.t = "string"
        /\ ~HasParsedObject =>
               wordData.value = WordRecord(Str(""), Arr(<< >>), Str(""))
        /\ HasParsedObject =>
               /\ Get(ParsedObject, "phonetic").t # "string"
                      => wordData.value.phonetic = Str("")
               /\ ~ListOfStrings(Get(ParsedObject, "examples"))
                      => wordData.value.examples = Arr(<< >>)
               /\ Get(ParsedObject, "translation").t # "string"
                      => wordData.value.translation = Str("")

\* ========================================================================
\* Properties of the voice selection (checked under SpecVoice)
\* ========================================================================
\* position k is the first voice of the list with property P
FirstRu(k) ==
    /\ StartsWith(voices[k].lang, RuPrefix)
    /\ \A m \in 1..(k - 1) : ~StartsWith(voices[m].lang, RuPrefix)

FirstEn(k) ==
    /\ StartsWith(voices[k].lang, EnPrefix)
    /\ \A m \in 1..(k - 1) : ~StartsWith(voices[m].lang, EnPrefix)

EnNaturalAt(k) ==
    StartsWith(voices[k].lang, EnPrefix) /\ Includes(voices[k].name, NaturalWord)

FirstEnNatural(k) == EnNaturalAt(k) /\ \A m \in 1..(k - 1) : ~EnNaturalAt(m)

VoiceIds == 1..Len(voices)

\* C24: a Russian run gets the first advertised voice whose locale starts
\* with 'ru'; an English run gets the first voice whose locale starts with
\* 'en' and whose name contains 'Natural', else the first voice whose locale
\* starts with 'en'; when no voice matches, no voice is set and the run is
\* still issued with its own locale tag.
VoicePerRun ==
    \A i \in 1..Len(spoken) :
        /\ spoken[i].lang = VoiceGroups[i].lang
        /\ spoken[i].text = VoiceGroups[i].text
        /\ spoken[i].lang = "ru-RU" =>
               /\ \A k \in VoiceIds : FirstRu(k) => spoken[i].voice = voices[k]
               /\ (\A k \in VoiceIds : ~FirstRu(k)) => spoken[i].voice = NullVoice
        /\ spoken[i].lang = "en-US" =>
               /\ \A k \in VoiceIds : FirstEnNatural(k) => spoken[i].voice = voices[k]
               /\ (\A k \in VoiceIds : ~EnNaturalAt(k)) =>
                      /\ \A k \in VoiceIds : FirstEn(k) => spoken[i].voice = voices[k]
                      /\ (\A k \in VoiceIds : ~FirstEn(k))
                             => spoken[i].voice = NullVoice

\* Sam (en-US) is advertised before UK Natural (en-GB): the English run got
\* UK Natural, and the Russian runs, with no Russian voice, got none
VoicePerRunWitness ==
    /\ Len(voices) = 3
    /\ voices[1].lang = << 101, 110, 45, 85, 83 >>
    /\ voices[2].lang = << 101, 110, 45, 71, 66 >>
    /\ voices[3].lang = << 100, 101, 45, 68, 69 >>
    /\ Len(spoken) = 3
    /\ spoken[1].lang = "ru-RU"
    /\ spoken[1].voice = NullVoice
    /\ spoken[2].lang = "en-US"
    /\ spoken[2].voice = voices[2]

\* ========================================================================
\* Further properties of the segmenters (checked under SpecSeg)
\* ========================================================================
\* the mobile tag that corresponds to a web tag
MobileTagOf(lang) == IF lang = "ru-RU" THEN "ru" ELSE "en"

\* C25: the web segmenter and the mobile segmenter are equivalent: for every
\* input text they produce the same sequence of runs (same texts, same
\* boundaries, tags corresponding ru-RU~ru and en-US~en), and each is
\* deterministic: its output is a function of the input text alone.
SegmentersEquivalent ==
    /\ out.webDone => out.web = WebGroups(input)
    /\ out.mobileDone => out.mobile = MobileGroups(input)
    /\ (out.webDone /\ out.mobileDone) =>
           /\ Len(out.web) = Len(out.mobile)
           /\ \A k \in 1..Len(out.web) :
                  /\ out.mobile[k].text = out.web[k].text
                  /\ out.mobile[k].lang = MobileTagOf(out.web[k].lang)

\* both segmenters have cut "д a д" into the same three runs
SegmentersEquivalentWitness ==
    /\ input = << 1076, 32, 97, 32, 1076 >>
    /\ out.webDone
    /\ out.mobileDone
    /\ Len(out.web) = 3
    /\ Len(out.mobile) = 3
    /\ out.web[2] = [lang |-> "en-US", text |-> << 97, 32 >>]
    /\ out.mobile[2] = [lang |-> "en", text |-> << 97, 32 >>]

\* the tokens of a cleaned text that are not whitespace, in order
SpokenTokens(text) ==
    SelectSeq(SplitKeepSpaces(text),
              LAMBDA w : w # << >> /\ ~IsWhitespaceToken(w))

\* how often the language changes from one token to the next
LanguageChanges(tokens) ==
    Cardinality({ k \in 1..(Len(tokens) - 1) :
                    HasRussianLetter(tokens[k]) # HasRussianLetter(tokens[k + 1]) })

\* as many runs as the tokens have blocks of one language
OneRunPerBlock(groups, tokens) ==
    Len(groups) = IF tokens = << >> THEN 0 ELSE LanguageChanges(tokens) + 1

\* C26: runs are maximal: in the output of segmentation any two consecutive
\* runs carry different language tags, and a whitespace token alone never
\* creates a run boundary (there is one run per block of tokens of one
\* language).
RunsAreMaximal ==
    /\ out.webDone =>
           /\ \A k \in 1..(Len(out.web) - 1) : out.web[k].lang # out.web[k + 1].lang
           /\ OneRunPerBlock(out.web, SpokenTokens(WebCleanedText(input)))
    /\ out.mobileDone =>
           /\ \A k \in 1..(Len(out.mobile) - 1) :
                  out.mobile[k].lang # out.mobile[k + 1].lang
           /\ OneRunPerBlock(out.mobile, SpokenTokens(MobileCleanedText(input)))

\* "д ё a": two Russian tokens, kept in one run across the space, then an
\* English one
RunsAreMaximalWitness ==
    /\ input = << 1076, 32, 1105, 32, 97 >>
    /\ out.webDone
    /\ out.mobileDone
    /\ Len(out.web) = 2
    /\ out.web[1] = [lang |-> "ru-RU", text |-> << 1076, 32, 1105, 32 >>]
    /\ out.web[2] = [lang |-> "en-US", text |-> << 97 >>]
    /\ Len(out.mobile) = 2

\* C27: every run produced by segmentation is non-empty and begins with a
\* non-whitespace character: whitespace between two runs of different
\* language is attached to the end of the earlier (open) run, never to the
\* start of the later one.
RunsStartWithText ==
    /\ out.webDone =>
           \A k \in 1..Len(out.web) :
               /\ out.web[k].text # << >>
               /\ ~IsWhitespace(out.web[k].text[1])
    /\ out.mobileDone =>
           \A k \in 1..Len(out.mobile) :
               /\ out.mobile[k].text # << >>
               /\ ~IsWhitespace(out.mobile[k].text[1])

\* "a д": the space between the two runs is the end of the English run
RunsStartWithTextWitness ==
    /\ input = << 97, 32, 1076 >>
    /\ out.webDone
    /\ out.mobileDone
    /\ out.mobile = << [lang |-> "en", text |-> << 97, 32 >>],
                       [lang |-> "ru", text |-> << 1076 >>] >>
    /\ out.web = << [lang |-> "en-US", text |-> << 97, 32 >>],
                    [lang |-> "ru-RU", text |-> << 1076 >>] >>

\* ========================================================================
\* Properties of the chat list (checked under SpecChat)
\* ========================================================================
\* C28: after any sequence of handleNewChat and handleDeleteChat the chat
\* list is non-empty and activeChatId names a chat in the list; deleting the
\* only remaining chat replaces it with one fresh chat, so the deleted
\* chat's id is no longer in the list.
ChatListKeptSound ==
    /\ chats # << >>
    /\ \E k \in 1..Len(chats) : chats[k] = activeChatId
    /\ (lastOp.op = "delete" /\ lastOp.only) =>
           /\ Len(chats) = 1
           /\ \A k \in 1..Len(chats) : chats[k] # lastOp.id

\* ========================================================================
\* Properties of speech recognition (checked under SpecListen)
\* ========================================================================
\* isListening is true exactly while the recognizer runs a session that has
\* neither been stopped nor failed
FlagIffActive == isListening <=> recognition.phase = "active"

\* a startListening made while isListening is true starts no session and
\* leaves the installed callbacks alone
BusyStartChangesNothing ==
    \A p \in 1..Len(heard) :
        (heard[p].op = "ignored") =>
            /\ p > 1
            /\ heard[p].sessions = heard[p - 1].sessions
            /\ heard[p].call = heard[p - 1].call

\* an end event that finds isListening true belongs to the session that the
\* call which set the flag has started
EndClearsOwnFlag ==
    \A p \in 1..Len(heard) :
        (heard[p].op = "end" /\ heard[p].flag) =>
            \E q \in 1..(p - 1) :
                /\ heard[q].op = "started"
                /\ heard[q].call = heard[p].call
                /\ heard[q].session = heard[p].session

\* C29: under any interleaving of startListening, stopListening and the
\* recognizer's end and error events, isListening is true exactly while a
\* session is active; a startListening made while it is true starts no
\* second session and replaces no callbacks; the late end event of a stopped
\* session never clears the flag set for a later one.
ListeningFlagTracksSession ==
    /\ FlagIffActive
    /\ BusyStartChangesNothing
    /\ EndClearsOwnFlag

\* the call was made while this.model was not set
MadeUninitialized(promise) == promise.state # "none" /\ promise.service = "null"

\* the promise was rejected with the not-initialized error, generateContent
\* was not reached and no record came back
FailedNotInitialized(promise, none) ==
    /\ promise.state = "rejected"
    /\ promise.error = "Gemini AI not initialized. Please provide an API key."
    /\ ~promise.asked
    /\ promise.value = none

\* C30: without initialize, generateVictorAIResponse and fetchWordData fail
\* with the 'Gemini AI not initialized' error before any LLM call and
\* without returning the default record; after initialize(apiKey) they never
\* fail with that error.
UninitializedCallsFail ==
    /\ MadeUninitialized(tutorReply) =>
           /\ FailedNotInitialized(tutorReply, NoTutorRecord)
           /\ tutorReply.value # TutorCatch
    /\ MadeUninitialized(wordData) =>
           /\ FailedNotInitialized(wordData, NoWordRecord)
           /\ wordData.value # WordCatch
    /\ MadeInitialized(tutorReply) => tutorReply.state # "rejected"
    /\ MadeInitialized(wordData) => wordData.state # "rejected"

\* one call made before initialize and one after it
UninitializedCallsFailWitness ==
    /\ MadeUninitialized(tutorReply)
    /\ tutorReply.state = "rejected"
    /\ MadeInitialized(wordData)
    /\ wordData.state = "resolved"

====
